---------------------------- MODULE Spec2Model ----------------------------
(***************************************************************************)
(* Model of examples/design_search/tasks.py: the ForwardSpeedTask family   *)
(* (Flat, Ridged, Gap, Stepped, FrozenLake, Hill), their terrain           *)
(* generators and the per-step perturbation add_noise.                     *)
(*                                                                         *)
(* Numbers.  Every length, standard deviation and coefficient is an exact  *)
(* integer multiple of 1/U: the float 1.0 is U, 0.1 is U \div 10, and so   *)
(* on.  U is chosen so that every division the code performs on the        *)
(* modelled inputs is exact (linspace steps for up to 9 gaps and for the   *)
(* default 20 gaps, halves of sums, 0.015 and 0.125 multiples), so the     *)
(* arithmetic below is the real-number arithmetic of the code; float       *)
(* rounding is not modelled.                                               *)
(*                                                                         *)
(* Randomness.  np.random.RandomState(seed) is a deterministic stream: the *)
(* k-th standard-normal draw is a function of (seed, k) alone.  The        *)
(* library's Mersenne Twister is not part of the repository; Gauss(seed,k) *)
(* stands for it: a fixed function into -ZMax..ZMax standard deviations,    *)
(* so that some seeds meet a tail draw within a terrain and others do not. *)
(* normal(mu, sigma) is mu + sigma * (standard draw), as in the library.   *)
(***************************************************************************)
EXTENDS Integers, Sequences, FiniteSets

(***************************************************************************)
(* Bounds of the model (not program constants).                            *)
(***************************************************************************)
ZMax == 6              \* standard draws range over -ZMax..ZMax sigmas
MaxSeed == 2           \* terrain seeds 0..MaxSeed
MaxNoiseSeed == 2      \* noise seeds 0..MaxNoiseSeed
MaxStep == 1           \* time_step_idx 0..MaxStep
MaxXHalves == 4        \* x_max in {0.5, 1.0, ..., MaxXHalves * 0.5}
MaxXMin == 1           \* x_min in {0, ..., MaxXMin} besides the default
MaxRobots == 2         \* get_robot_count() in 0..MaxRobots
MaxTerrainCalls == 2   \* add_terrain calls followed per task
MaxNoiseCalls == 2     \* add_link_force_torque calls followed per scene

(***************************************************************************)
(* Program constants.                                                      *)
(***************************************************************************)
NumBumps == 20         \* range(20)
HillRows == 97         \* size=(97, 33)
HillCols == 33

U == 40 * 15960        \* the float 1.0
Tenth == U \div 10
Half == U \div 2
DefaultXMin == 0 - 20 * U
DefaultXMax == 20 * U
DefaultForceStd == 10 * U
DefaultTorqueStd == 0

Kinds == {"Flat", "Ridged", "Gap", "Stepped", "FrozenLake", "Hill"}
Seeds == 0 .. MaxSeed
NoiseSeeds == 0 .. MaxNoiseSeed
Steps == 0 .. MaxStep
XMins == {DefaultXMin} \cup {m * U : m \in 0 .. MaxXMin}
XMaxs == {DefaultXMax} \cup {h * Half : h \in 1 .. MaxXHalves}

Quaterniond(w, x, y, z) == <<w, x, y, z>>
Identity == Quaterniond(1, 0, 0, 0)

(***************************************************************************)
(* RandomStream: np.random.RandomState.                                    *)
(***************************************************************************)
\* a scrambling of (seed, k) into 0 .. 10006
Mix(seed, k) ==
  LET a == (seed * 3571 + k * 911 + 101) % 10007
  IN  (a * a + 3 * a + k) % 10007

\* the k-th standard-normal draw (k = 0, 1, ...) of the stream seeded
\* `seed`, in standard deviations: bell shaped, most draws within one
\* deviation, one in a hundred at each tail -ZMax and ZMax
Gauss(seed, k) ==
  LET r == Mix(seed, k) % 100
  IN  CASE r = 0 -> 0 - ZMax
        [] r = 1 -> 0 - 3
        [] r \in 2 .. 6 -> 0 - 2
        [] r \in 7 .. 30 -> 0 - 1
        [] r \in 31 .. 68 -> 0
        [] r \in 69 .. 92 -> 1
        [] r \in 93 .. 97 -> 2
        [] r = 98 -> 3
        [] r = 99 -> ZMax

\* a freshly seeded stream: nothing drawn yet
RandomState(seed) == [seed |-> seed, pos |-> 0]

\* rng.normal(mu, sigma): the next draw of the stream
Normal(rng, mu, sigma) == mu + sigma * Gauss(rng.seed, rng.pos)

\* the stream after n draws
Advance(rng, n) == [rng EXCEPT !.pos = @ + n]

\* rng.normal(mu, sigma, size=n): the next n draws, in order
NormalVec(rng, mu, sigma, n) ==
  [i \in 1 .. n |-> Normal(Advance(rng, i - 1), mu, sigma)]

(***************************************************************************)
(* numpy helpers.                                                          *)
(***************************************************************************)
CeilDiv(a, b) == (a + b - 1) \div b

\* len(np.arange(start, stop, step)), step > 0
ArangeLen(start, stop, step) ==
  IF stop > start THEN CeilDiv(stop - start, step) ELSE 0

\* np.arange(start, stop, step)
Arange(start, stop, step) ==
  [i \in 1 .. ArangeLen(start, stop, step) |-> start + (i - 1) * step]

\* np.linspace(start, stop, num=n): n = 1 yields [start]
Linspace(start, stop, n) ==
  [i \in 1 .. n |->
     IF n = 1 THEN start ELSE start + (i - 1) * ((stop - start) \div (n - 1))]

\* np.clip(v, lo, hi)
Clip(v, lo, hi) == IF v < lo THEN lo ELSE IF v > hi THEN hi ELSE v

\* np.concatenate
Concat(s, t) == s \o t

Min(a, b) == IF a < b THEN a ELSE b

(***************************************************************************)
(* Props.                                                                  *)
(***************************************************************************)
\* rd.Prop(rd.PropShape.BOX, density, friction, half_extents)
BoxProp(density, friction, half_extents) ==
  [shape |-> "BOX", density |-> density, friction |-> friction,
   half_extents |-> half_extents, color |-> <<>>, heightfield |-> <<>>]

\* rd.HeightfieldProp(friction, half_extents, heightfield)
HeightfieldProp(friction, half_extents, heightfield) ==
  [shape |-> "HEIGHTFIELD", density |-> 0, friction |-> friction,
   half_extents |-> half_extents, color |-> <<>>,
   heightfield |-> heightfield]

(***************************************************************************)
(* Task construction.                                                      *)
(***************************************************************************)
\* ForwardSpeedTask.__init__: the fields add_noise reads
ForwardSpeedTask(noise_seed, force_std, torque_std) ==
  [noise_seed |-> noise_seed, force_std |-> force_std,
   torque_std |-> torque_std]

\* a task record with every variant-specific attribute absent
NoAttrs(kind, base) ==
  [kind |-> kind, base |-> base, seed |-> 0,
   floor |-> <<>>, bump |-> <<>>, floor_x |-> 0,
   platform_x |-> <<>>, platforms |-> <<>>,
   heightfield |-> <<>>,
   \* locals of __init__, kept to state the layout properties
   x_min |-> 0, x_max |-> 0, gap_centers |-> <<>>, gap_widths |-> <<>>,
   platform_x_min |-> <<>>, platform_x_max |-> <<>>]

FlatTerrainTask(base) ==
  [NoAttrs("Flat", base) EXCEPT
     !.floor = BoxProp(0, Half, <<40 * U, U, 10 * U>>)]

FrozenLakeTask(base) ==
  [NoAttrs("FrozenLake", base) EXCEPT
     !.floor = [BoxProp(0, U \div 20, <<20 * U, U, 10 * U>>) EXCEPT
                  !.color = <<8 * Tenth, 9 * Tenth, U>>]]

RidgedTerrainTask(seed, base) ==
  [NoAttrs("Ridged", base) EXCEPT
     !.seed = seed,
     !.floor = BoxProp(0, Half, <<20 * U, U, 10 * U>>),
     !.bump = BoxProp(0, Half, <<Tenth, 2 * Tenth, 10 * U>>)]

\* platform_x and platform_half_widths from the platform bounds, and the
\* box built for every half width
WithPlatforms(t, platform_x_min, platform_x_max) ==
  [t EXCEPT
     !.platform_x_min = platform_x_min,
     !.platform_x_max = platform_x_max,
     !.platform_x =
        [i \in 1 .. Len(platform_x_min) |->
           (platform_x_min[i] + platform_x_max[i]) \div 2],
     !.platforms =
        [i \in 1 .. Len(platform_x_min) |->
           BoxProp(0, Half,
                   <<(platform_x_max[i] - platform_x_min[i]) \div 2,
                     U, 10 * U>>)]]

\* variant: the widths laid out from the widest to the narrowest
GapWidthsReversed(n) == Linspace(Half, Tenth, n)

\* the gap widths of n gaps
GapWidths(n) == Linspace(Tenth, Half, n)

GapTerrainTask(x_min, x_max, seed, base) ==
  LET rng == RandomState(seed)
      nominal == Arange(Half, x_max, U)
      n == Len(nominal)
      noise == NormalVec(rng, 0, Tenth, n)
      gap_centers == [i \in 1 .. n |-> nominal[i] + noise[i]]
      gap_widths == GapWidths(n)
      platform_x_min ==
        Concat(<<x_min>>,
               [i \in 1 .. n |-> gap_centers[i] + gap_widths[i] \div 2])
      platform_x_max ==
        Concat([i \in 1 .. n |-> gap_centers[i] - gap_widths[i] \div 2],
               <<x_max>>)
  IN  [WithPlatforms(NoAttrs("Gap", base), platform_x_min, platform_x_max)
         EXCEPT
         !.seed = seed, !.x_min = x_min, !.x_max = x_max,
         !.gap_centers = gap_centers, !.gap_widths = gap_widths,
         !.floor_x = (x_min + x_max) \div 2,
         !.floor = BoxProp(0, Half, <<(x_max - x_min) \div 2, U, 10 * U>>)]

SteppedTerrainTask(x_min, x_max, seed, base) ==
  LET rng == RandomState(seed)
      nominal == Arange(0, x_max, Half)
      n == Len(nominal)
      noise == NormalVec(rng, 0, Tenth, n)
      edge_x == [i \in 1 .. n |-> nominal[i] + noise[i]]
  IN  [WithPlatforms(NoAttrs("Stepped", base),
                     Concat(<<x_min>>, edge_x), Concat(edge_x, <<x_max>>))
         EXCEPT
         !.seed = seed, !.x_min = x_min, !.x_max = x_max]

\* variant: the cell clipped from below only
HillCellNoCeiling(v) == IF v < 0 THEN 0 ELSE v

\* np.clip(., 0.0, 1.0) of one cell of the height grid
HillCell(v) == Clip(v, 0, U)

\* y = np.clip(rng.normal(0.5, 0.125, size=(97, 33)), 0.0, 1.0): the grid
\* is a sequence of 97 rows of 33 cells, and cell (r, c), 0-indexed, is draw
\* number r * 33 + c of the stream

HillTerrainTask(seed, base) ==
  LET rng == RandomState(seed)
  IN  [NoAttrs("Hill", base) EXCEPT
         !.seed = seed,
         !.heightfield =
            HeightfieldProp(
              Half, <<30 * U, U \div 4, 10 * U>>,
              [r \in 1 .. HillRows |->
                 [c \in 1 .. HillCols |->
                    HillCell(Normal(Advance(rng,
                                            (r - 1) * HillCols + (c - 1)),
                                    Half, U \div 8))]])]

(***************************************************************************)
(* State.                                                                  *)
(***************************************************************************)
VARIABLES
  task,          \* task id -> the constructed task
  sim,           \* task id -> the simulation the task is used with
  aborted,       \* task id -> add_noise's assertion has failed
  nTerrain,      \* task id -> number of add_terrain calls made on the task
  emitted,       \* task id -> add_prop calls of the latest add_terrain call
  firstEmitted,  \* task id -> add_prop calls of the first add_terrain call
  lastStep,      \* task id -> step index of the latest wrench applied
  noiseLog       \* task id -> step index -> first wrench applied at it

vars ==
  <<task, sim, aborted, nTerrain, emitted, firstEmitted, lastStep, noiseLog>>

None == <<>>

\* a new simulation holding `robots` robots, no prop, no applied wrench
NewSim(robots) ==
  [robot_count |-> robots, props |-> <<>>, nWrench |-> 0, wrench |-> None]

(***************************************************************************)
(* add_terrain: the ordered add_prop calls of one invocation.              *)
(***************************************************************************)
AddProp(prop, position, orientation) ==
  [prop |-> prop, position |-> position, orientation |-> orientation]

\* variant: the stream seeded from the seed plus the number of calls so far
TerrainRngPerCall(id) == RandomState(task[id].seed + nTerrain[id])

\* the stream add_terrain draws from: reseeded from the task's seed on
\* every invocation
TerrainRng(id) == RandomState(task[id].seed)

FlatTerrain(t) == <<AddProp(t.floor, <<0, 0 - U, 0>>, Identity)>>

\* variant: the height computed from i instead of i + 1
BumpYFromIndex(i) == (0 - 2 * Tenth) + (U \div 50) * i

\* y of bump i (0-indexed)
BumpY(i) == (0 - 2 * Tenth) + (U \div 50) * (i + 1)

RidgedTerrain(t, rng) ==
  Concat(<<AddProp(t.floor, <<0, 0 - U, 0>>, Identity)>>,
         [j \in 1 .. NumBumps |->
            AddProp(t.bump,
                    <<Normal(Advance(rng, j - 1), Half, Tenth) + (j - 1) * U,
                      BumpY(j - 1), 0>>,
                    Identity)])

GapTerrain(t, rng) ==
  Concat([j \in 1 .. Len(t.platform_x) |->
            AddProp(t.platforms[j],
                    <<t.platform_x[j],
                      (0 - U) + Normal(Advance(rng, j - 1), 0,
                                       (U \div 100) * (j - 1)),
                      0>>,
                    Identity)],
         <<AddProp(t.floor, <<t.floor_x, 0 - 2 * U, 0>>, Identity)>>)

\* variant: the deviation without its cap
StepSigmaUncapped(i) == ((3 * U) \div 200) * i

\* standard deviation of the draw made after platform i (0-indexed) is placed
StepSigma(i) == Min(((3 * U) \div 200) * i, Tenth)

\* the values y takes through the first n iterations of the loop: entry j
\* is y when platform j - 1 (0-indexed) is placed; y starts at -1.0 and the
\* draw made after placing platform i is added to it
RECURSIVE StepYs(_, _)
StepYs(rng, n) ==
  IF n = 0 THEN <<>>
  ELSE IF n = 1 THEN <<0 - U>>
  ELSE LET ys == StepYs(rng, n - 1)
       IN  Append(ys, ys[n - 1]
                        + Normal(Advance(rng, n - 2), 0, StepSigma(n - 2)))

SteppedTerrain(t, rng) ==
  LET ys == StepYs(rng, Len(t.platform_x))
  IN  [j \in 1 .. Len(t.platform_x) |->
         AddProp(t.platforms[j], <<t.platform_x[j], ys[j], 0>>, Identity)]

HillTerrain(t) ==
  <<AddProp(t.heightfield, <<20 * U, 0 - U \div 4, 0>>, Identity)>>

Terrain(id) ==
  LET t == task[id]
  IN  CASE t.kind \in {"Flat", "FrozenLake"} -> FlatTerrain(t)
        [] t.kind = "Ridged" -> RidgedTerrain(t, TerrainRng(id))
        [] t.kind = "Gap" -> GapTerrain(t, TerrainRng(id))
        [] t.kind = "Stepped" -> SteppedTerrain(t, TerrainRng(id))
        [] t.kind = "Hill" -> HillTerrain(t)

AddTerrain(id) ==
  /\ ~aborted[id]
  /\ nTerrain[id] < MaxTerrainCalls
  /\ LET calls == Terrain(id)
     IN  /\ sim' = [sim EXCEPT ![id].props = Concat(@, calls)]
         /\ emitted' = [emitted EXCEPT ![id] = calls]
         /\ firstEmitted' =
              IF nTerrain[id] = 0
              THEN [firstEmitted EXCEPT ![id] = calls]
              ELSE firstEmitted
  /\ nTerrain' = [nTerrain EXCEPT ![id] = @ + 1]
  /\ UNCHANGED <<task, aborted, lastStep, noiseLog>>

(***************************************************************************)
(* add_noise.                                                              *)
(***************************************************************************)
\* variant: any scene with a robot in it is accepted
RobotCountAtLeastOne(s) == s.robot_count >= 1

\* assert sim.get_robot_count() == 1
RobotCountOk(s) == s.robot_count = 1

\* variant: one stream per scene, seeded from noise_seed and drawn from by
\* every call in turn
NoiseRngPersistent(id, time_step_idx) ==
  Advance(RandomState(task[id].base.noise_seed), 6 * sim[id].nWrench)

\* variant: the seed derived so that no two (noise_seed, step) pairs share it
NoiseRngDisjoint(id, time_step_idx) ==
  RandomState(task[id].base.noise_seed * 1000 + time_step_idx)

\* noise_rng: the step-local stream, seeded from noise_seed + time_step_idx
NoiseRng(id, time_step_idx) ==
  RandomState(task[id].base.noise_seed + time_step_idx)

\* the add_link_force_torque call of add_noise
NoiseWrench(base, noise_rng) ==
  [body |-> 0, link |-> 0,
   force |-> NormalVec(noise_rng, 0, base.force_std, 3),
   torque |-> NormalVec(Advance(noise_rng, 3), 0, base.torque_std, 3)]

\* the program's part of add_noise(sim, time_step_idx)
AddNoise(id, time_step_idx) ==
  /\ ~aborted[id]
  /\ sim[id].nWrench < MaxNoiseCalls
  /\ IF RobotCountOk(sim[id])
     THEN /\ sim' = [sim EXCEPT
                       ![id].wrench =
                          NoiseWrench(task[id].base,
                                      NoiseRng(id, time_step_idx)),
                       ![id].nWrench = @ + 1]
          /\ lastStep' = [lastStep EXCEPT ![id] = time_step_idx]
          /\ UNCHANGED aborted
     ELSE /\ aborted' = [aborted EXCEPT ![id] = TRUE]
          /\ UNCHANGED <<sim, lastStep>>
  /\ UNCHANGED <<task, nTerrain, emitted, firstEmitted>>

\* history: the first wrench applied at each step index of each task, and
\* whether one or several calls have applied a wrench at that step index
LogNoise(id, time_step_idx) ==
  noiseLog' =
    IF sim'[id].nWrench = sim[id].nWrench
    THEN noiseLog
    ELSE IF noiseLog[id][time_step_idx] = None
    THEN [noiseLog EXCEPT
            ![id][time_step_idx] =
               [wrench |-> sim'[id].wrench, again |-> FALSE]]
    ELSE [noiseLog EXCEPT ![id][time_step_idx].again = TRUE]

\* the caller starts a new episode: a fresh simulation, some robots in it
NewEpisode(id, robots) ==
  /\ ~aborted[id]
  /\ sim[id] # NewSim(robots)
  /\ sim' = [sim EXCEPT ![id] = NewSim(robots)]
  /\ UNCHANGED <<task, aborted, nTerrain, emitted, firstEmitted, lastStep,
                 noiseLog>>

(***************************************************************************)
(* Specifications.                                                         *)
(***************************************************************************)
DefaultBase == ForwardSpeedTask(0, DefaultForceStd, DefaultTorqueStd)

\* the extents [x_min, x_max] the multi-platform variants are built over
Extents == {x \in XMins \X XMaxs : x[1] < x[2]}

\* every task the terrain claims range over
TerrainTasks(base) ==
  {FlatTerrainTask(base), FrozenLakeTask(base)}
  \cup {RidgedTerrainTask(s, base) : s \in Seeds}
  \cup {HillTerrainTask(s, base) : s \in Seeds}
  \cup {GapTerrainTask(x[1], x[2], s, base) : x \in Extents, s \in Seeds}
  \cup {SteppedTerrainTask(x[1], x[2], s, base) : x \in Extents, s \in Seeds}

InitFor(ids) ==
  /\ sim \in [ids -> {NewSim(r) : r \in 0 .. MaxRobots}]
  /\ aborted = [id \in ids |-> FALSE]
  /\ nTerrain = [id \in ids |-> 0]
  /\ emitted = [id \in ids |-> None]
  /\ firstEmitted = [id \in ids |-> None]
  /\ noiseLog = [id \in ids |-> [k \in Steps |-> None]]
  /\ lastStep = [id \in ids |-> 0 - 1]

Init ==
  /\ task \in [{1} -> TerrainTasks(DefaultBase)]
  /\ InitFor({1})

TerrainCall == \E id \in DOMAIN task : AddTerrain(id)

NoiseCall ==
  \E id \in DOMAIN task, k \in Steps :
    AddNoise(id, k) /\ UNCHANGED noiseLog

\* add_noise, with the history of applied wrenches kept
LoggedNoiseCall ==
  \E id \in DOMAIN task, k \in Steps : AddNoise(id, k) /\ LogNoise(id, k)

EpisodeStart ==
  \E id \in DOMAIN task, r \in 0 .. MaxRobots : NewEpisode(id, r)

Next == TerrainCall \/ NoiseCall \/ EpisodeStart

\* one task of any variant, default perturbation parameters
Spec == Init /\ [][Next]_vars

\* the perturbation parameters the noise claims range over
NoiseBases ==
  {ForwardSpeedTask(s, DefaultForceStd, q) :
     s \in NoiseSeeds, q \in {DefaultTorqueStd, U}}

NoiseInit ==
  /\ task \in [{1} -> UNION {{FlatTerrainTask(b), RidgedTerrainTask(0, b)} :
                               b \in NoiseBases}]
  /\ InitFor({1})

NoiseNext == TerrainCall \/ LoggedNoiseCall \/ EpisodeStart

\* one task with any perturbation parameters
NoiseSpec == NoiseInit /\ [][NoiseNext]_vars

PairInit ==
  /\ task \in [{1, 2} -> {FlatTerrainTask(b) : b \in NoiseBases}]
  /\ InitFor({1, 2})

PairNext == NoiseCall \/ EpisodeStart

\* two independent tasks, each perturbing its own simulation
PairSpec == PairInit /\ [][PairNext]_vars

(***************************************************************************)
(* Properties.                                                             *)
(***************************************************************************)
PosX(call) == call.position[1]
PosY(call) == call.position[2]
HalfWidth(prop) == prop.half_extents[1]

\* C1: on every task variant, each add_terrain call emits the same ordered
\* sequence of add_prop calls (prop, position, orientation) as the first
\* call made on that task, whatever add_terrain and add_noise calls and
\* new episodes came before it.
C1_TerrainRepeats ==
  \A id \in DOMAIN task :
    nTerrain[id] >= 1 =>
      /\ emitted[id] # <<>>
      /\ emitted[id] = firstEmitted[id]

\* a later add_terrain call on a seeded variant, made in a new episode in
\* which add_noise has also applied a wrench
C1_Witness ==
  \E id \in DOMAIN task :
    /\ task[id].kind \in {"Ridged", "Gap", "Stepped"}
    /\ task[id].seed >= 1
    /\ nTerrain[id] >= 2
    /\ sim[id].props = emitted[id]
    /\ sim[id].nWrench >= 1

\* C7: every cell of the 97 x 33 height field held by the Hill task's
\* height-field prop lies in [0, 1], for every seed.
C7_HillCellsInUnitInterval ==
  \A id \in DOMAIN task :
    task[id].kind = "Hill" =>
      LET y == task[id].heightfield.heightfield
      IN  /\ Len(y) = 97
          /\ \A r \in 1 .. 97 :
               /\ Len(y[r]) = 33
               /\ \A c \in 1 .. 33 : 0 <= y[r][c] /\ y[r][c] <= U

\* a Hill task whose field was clipped at both ends and handed to the scene
C7_Witness ==
  \E id \in DOMAIN task :
    /\ task[id].kind = "Hill"
    /\ nTerrain[id] >= 1
    /\ sim[id].props # <<>>
    /\ LET y == sim[id].props[1].prop.heightfield
       IN  /\ \E r \in 1 .. 97, c \in 1 .. 33 : y[r][c] = 0
           /\ \E r \in 1 .. 97, c \in 1 .. 33 : y[r][c] = U
           /\ \E r \in 1 .. 97, c \in 1 .. 33 : 0 < y[r][c] /\ y[r][c] < U

\* C8: each Ridged add_terrain call emits the floor first and then exactly
\* 20 bumps, and bump i (0-indexed) is placed at y = -0.2 + 0.02 * (i + 1),
\* whatever the seed and the draws.
C8_RidgedFloorThenTwentyBumps ==
  \A id \in DOMAIN task :
    (task[id].kind = "Ridged" /\ nTerrain[id] >= 1) =>
      LET e == emitted[id]
      IN  /\ Len(e) = 21
          /\ e[1].prop = task[id].floor
          /\ e[1].prop # task[id].bump
          /\ \A i \in 0 .. 19 :
               /\ e[i + 2].prop = task[id].bump
               /\ PosY(e[i + 2]) = (U \div 50) * (i + 1) - U \div 5

\* a Ridged terrain whose bumps were moved in x by the draws
C8_Witness ==
  \E id \in DOMAIN task :
    /\ task[id].kind = "Ridged"
    /\ task[id].seed >= 1
    /\ nTerrain[id] >= 1
    /\ \E i \in 0 .. 19 : PosX(emitted[id][i + 2]) # Half + i * U
    /\ PosY(emitted[id][21]) = U \div 5

\* C9: Stepped platform 0 is placed at y = -1 and platform i + 1 at the y
\* of platform i plus the draw number i of the seed's stream scaled by
\* min(0.015 * i, 0.1); that standard deviation is non-decreasing in i and
\* never exceeds 0.1.
C9_SteppedRandomWalk ==
  \A id \in DOMAIN task :
    (task[id].kind = "Stepped" /\ nTerrain[id] >= 1) =>
      LET e == emitted[id]
      IN  /\ PosY(e[1]) = 0 - U
          /\ \A i \in 0 .. Len(e) - 2 :
               /\ PosY(e[i + 2]) - PosY(e[i + 1])
                    = Gauss(task[id].seed, i)
                        * (IF i >= 7 THEN U \div 10 ELSE i * ((3 * U) \div 200))
               /\ StepSigma(i) <= StepSigma(i + 1)
               /\ StepSigma(i) <= U \div 10
               /\ StepSigma(i) >= 0

\* a Stepped terrain long enough for the cap to act: platform 1 level with
\* platform 0, a step taken with a capped deviation further on
C9_Witness ==
  \E id \in DOMAIN task :
    /\ task[id].kind = "Stepped"
    /\ nTerrain[id] >= 1
    /\ LET e == emitted[id]
       IN  /\ Len(e) >= 10
           /\ PosY(e[2]) = PosY(e[1])
           /\ \E i \in 1 .. 6 : PosY(e[i + 2]) # PosY(e[i + 1])
           /\ \E i \in 7 .. Len(e) - 2 : PosY(e[i + 2]) # PosY(e[i + 1])

RECURSIVE SumSeq(_)
SumSeq(q) == IF q = <<>> THEN 0 ELSE q[1] + SumSeq(Tail(q))

\* the x interval platform j of task t covers: centre -+ half width
PlatformLeft(t, j) == t.platform_x[j] - HalfWidth(t.platforms[j])
PlatformRight(t, j) == t.platform_x[j] + HalfWidth(t.platforms[j])

\* C4: a Gap terrain built over [x_min, x_max] has one platform more than
\* gaps, every platform has a non-negative half width and ends no later
\* than the next one begins, and the platform widths plus the gap widths
\* add up to x_max - x_min.
C4_GapPlatformsPartitionSpan ==
  \A id \in DOMAIN task :
    task[id].kind = "Gap" =>
      LET t == task[id]
          n == Len(t.platforms)
      IN  /\ n = Len(t.gap_widths) + 1
          /\ Len(t.platform_x) = n
          /\ \A j \in 1 .. n : HalfWidth(t.platforms[j]) >= 0
          /\ \A j \in 1 .. n - 1 : PlatformRight(t, j) <= PlatformLeft(t, j + 1)
          /\ SumSeq([j \in 1 .. n |-> 2 * HalfWidth(t.platforms[j])])
               + SumSeq(t.gap_widths) = t.x_max - t.x_min

\* C5: the gap widths of a Gap terrain are non-decreasing when the gaps are
\* taken in order of their x position, the narrowest gap being 0.1 wide and
\* the widest 0.5 wide.
C5_GapWidthsGrowFromTenthToHalf ==
  \A id \in DOMAIN task :
    (task[id].kind = "Gap" /\ task[id].gap_widths # <<>>) =>
      LET c == task[id].gap_centers
          w == task[id].gap_widths
          G == 1 .. Len(w)
      IN  /\ \A i, j \in G : c[i] < c[j] => w[i] <= w[j]
          /\ \E i \in G : w[i] = U \div 10 /\ \A j \in G : w[i] <= w[j]
          /\ \E i \in G : w[i] = U \div 2 /\ \A j \in G : w[j] <= w[i]

\* C5 as amended: with at least two gaps the widths are non-decreasing in
\* generation order (gap i is the one generated around 0.5 + i), the first
\* being 0.1 wide and the last 0.5 wide; a single gap is 0.1 wide.  The
\* generation order is the x order whenever the perturbed centres are still
\* increasing.
C5_GapWidthsGrowInGenerationOrder ==
  \A id \in DOMAIN task :
    (task[id].kind = "Gap" /\ task[id].gap_widths # <<>>) =>
      LET c == task[id].gap_centers
          w == task[id].gap_widths
          n == Len(w)
      IN  /\ Len(c) = n
          /\ w[1] = U \div 10
          /\ n >= 2 => w[n] = U \div 2
          /\ \A i \in 1 .. n - 1 : w[i] <= w[i + 1]
          /\ (\A i \in 1 .. n - 1 : c[i] < c[i + 1]) =>
               \A i, j \in 1 .. n : c[i] < c[j] => w[i] <= w[j]

\* a Gap terrain with the default 20 gaps, and intermediate widths
C5_Witness ==
  \E id \in DOMAIN task :
    /\ task[id].kind = "Gap"
    /\ Len(task[id].gap_widths) = 20
    /\ task[id].gap_widths[1] < task[id].gap_widths[2]
    /\ task[id].gap_widths[2] < task[id].gap_widths[20]
    /\ nTerrain[id] >= 1

\* C6: the platforms of a Stepped terrain built over [x_min, x_max] cover it
\* exactly: the first starts at x_min, the last ends at x_max, each ends
\* where the next begins, and every half width is non-negative.
C6_SteppedPlatformsCoverSpan ==
  \A id \in DOMAIN task :
    task[id].kind = "Stepped" =>
      LET t == task[id]
          n == Len(t.platforms)
      IN  /\ n >= 1
          /\ Len(t.platform_x) = n
          /\ PlatformLeft(t, 1) = t.x_min
          /\ PlatformRight(t, n) = t.x_max
          /\ \A j \in 1 .. n - 1 : PlatformRight(t, j) = PlatformLeft(t, j + 1)
          /\ \A j \in 1 .. n : HalfWidth(t.platforms[j]) >= 0

\* C2: whenever add_noise applies a wrench at step index k, its force and
\* torque are those of the first wrench the task applied at step index k,
\* whatever add_noise and add_terrain calls and new episodes came between.
C2_NoiseRepeatsPerStep ==
  \A id \in DOMAIN task :
    sim[id].wrench # None =>
      /\ lastStep[id] \in Steps
      /\ noiseLog[id][lastStep[id]] # None
      /\ sim[id].wrench.force = noiseLog[id][lastStep[id]].wrench.force
      /\ sim[id].wrench.torque = noiseLog[id][lastStep[id]].wrench.torque

\* a wrench applied again at a step index, in a later position of a scene's
\* call sequence, after add_terrain and a wrench at another step index
C2_Witness ==
  \E id \in DOMAIN task :
    /\ sim[id].wrench # None
    /\ sim[id].nWrench >= 2
    /\ noiseLog[id][lastStep[id]].again
    /\ \E k \in Steps : k # lastStep[id] /\ noiseLog[id][k] # None
    /\ nTerrain[id] >= 1
    /\ task[id].base.noise_seed >= 1
    /\ task[id].base.torque_std > 0
    /\ \E a \in 1 .. 3 : sim[id].wrench.torque[a] # 0

\* C3: every add_noise call on a scene holding exactly one robot makes one
\* add_link_force_torque call, on body 0 link 0, and does not fail; every
\* add_noise call on a scene holding no robot or several fails and leaves
\* the scene as it was.
C3_NoiseIffOneRobot ==
  [][\A id \in DOMAIN task, k \in Steps :
       AddNoise(id, k) =>
         IF sim[id].robot_count = 1
         THEN /\ sim'[id].nWrench = sim[id].nWrench + 1
              /\ sim'[id].wrench.body = 0
              /\ sim'[id].wrench.link = 0
              /\ sim'[id].props = sim[id].props
              /\ sim'[id].robot_count = 1
              /\ ~aborted'[id]
         ELSE /\ aborted'[id]
              /\ sim' = sim]_vars

\* add_noise has failed on a scene with several robots and a terrain in it
C3_Witness ==
  \E id \in DOMAIN task :
    /\ aborted[id]
    /\ sim[id].robot_count > 1
    /\ sim[id].props # <<>>
    /\ sim[id].nWrench = 0

\* C10: two tasks with equal force_std and torque_std whose latest wrenches
\* were applied at steps k1 and k2 with noise_seed1 + k1 = noise_seed2 + k2
\* applied the same force and the same torque.
C10_NoiseDependsOnSeedPlusStep ==
  \A a, b \in DOMAIN task :
    ( /\ sim[a].wrench # None
      /\ sim[b].wrench # None
      /\ task[a].base.force_std = task[b].base.force_std
      /\ task[a].base.torque_std = task[b].base.torque_std
      /\ task[a].base.noise_seed + lastStep[a]
           = task[b].base.noise_seed + lastStep[b] ) =>
      /\ sim[a].wrench.force = sim[b].wrench.force
      /\ sim[a].wrench.torque = sim[b].wrench.torque

\* two tasks with different noise seeds, perturbed at different steps with
\* the same sum, by a force that is not zero
C10_Witness ==
  \E a, b \in DOMAIN task :
    /\ task[a].base.noise_seed < task[b].base.noise_seed
    /\ task[a].base.force_std = task[b].base.force_std
    /\ task[a].base.torque_std = task[b].base.torque_std
    /\ sim[a].wrench # None
    /\ sim[b].wrench # None
    /\ task[a].base.noise_seed + lastStep[a]
         = task[b].base.noise_seed + lastStep[b]
    /\ \E x \in 1 .. 3 : sim[a].wrench.force[x] # 0

=============================================================================
